---- MODULE Spec2Model ----
(***************************************************************************)
(* A model of wrf_ens_tools/post/interp_analysis.py: the grid interpolator *)
(* (bilinear_interp), the RAP fetch-and-interpolate job (interpRAPtoWRF),  *)
(* the GridRad horizontal interpolator (horiz_interp_and_store_gridrad),   *)
(* the reflectivity event-grid builder (reflectivity_to_eventgrid) and the *)
(* region plot loop (plot_interp_refl_rbox).                               *)
(*                                                                         *)
(* Units.  Coordinates are counted in halves (model 2 = 1.0) and field     *)
(* values in quarters (model 4 = 1.0), so that the linear interpolant of   *)
(* whole source values on a lattice of whole spacing, evaluated at half    *)
(* positions, is an integer.  NaN and the fill value 9e9 are encoded as    *)
(* two reserved integers outside the range of the data (9e9 itself does    *)
(* not fit a 32-bit integer); no arithmetic is ever done on them, and 9e9  *)
(* compares greater than every number of the model, as it does in python.  *)
(*                                                                         *)
(* A 2-D array is a sequence of rows; a 3-D array with a Time axis is a    *)
(* sequence of 2-D arrays; python index k is model index k+1.              *)
(***************************************************************************)
EXTENDS Integers, Sequences, FiniteSets, TLC

VARIABLES
    qhull,          \* the triangulation library's tie-breaks for the next call
    grid1x, grid1y, \* bilinear_interp: source coordinates (2-D arrays)
    z,              \* bilinear_interp: source values (2-D array)
    grid2x, grid2y, \* bilinear_interp: target coordinates (2-D arrays)
    interpolated_z, \* bilinear_interp: the returned array, <<>> before the call
    fs,             \* the file system: path -> file record, or NoFile
    calls,          \* horiz_interp_and_store_gridrad: the calls made so far
    ev,             \* reflectivity_to_eventgrid: arguments, locals and position
    rap,            \* interpRAPtoWRF: remote dataset, locals and position
    plt             \* plot_interp_refl_rbox: arguments, locals and position

vars == <<qhull, grid1x, grid1y, z, grid2x, grid2y, interpolated_z,
          fs, calls, ev, rap, plt>>

-----------------------------------------------------------------------------
(* Values *)

\* np.NaN (reserved code)
NaN == -2000000000

\* fill_value=9e9 of LinearNDInterpolator and of GridRad_Refl (reserved code)
FillValue == 2000000000

\* a path at which os.path.exists is false
NoFile == [exists |-> FALSE]

IsNum(v) == v # NaN /\ v # FillValue

\* python's a > b on floats: false whenever either side is NaN
Greater(a, b) ==
    IF a = NaN \/ b = NaN THEN FALSE
    ELSE IF a = FillValue THEN b # FillValue
    ELSE IF b = FillValue THEN FALSE
    ELSE a > b

\* ndarray.flatten() of a 2-D array: row-major
RECURSIVE flatten(_)
flatten(a) == IF a = <<>> THEN <<>> ELSE Head(a) \o flatten(Tail(a))

\* list(zip(a, b))
zip(a, b) == [k \in 1..(IF Len(a) < Len(b) THEN Len(a) ELSE Len(b)) |-> <<a[k], b[k]>>]

-----------------------------------------------------------------------------
(* scipy.interpolate.LinearNDInterpolator on the four nodes of a 2x2 array *)
(* whose nodes form a rectangle: the four nodes lie on one circle, so both *)
(* splits of the rectangle are Delaunay and the library's choice is a      *)
(* tie-break (qhull.diag); a point on the shared edge lies in both         *)
(* simplices and the one found is a tie-break too (qhull.first).           *)

QhullChoices == [diag : {1, 2}, first : {1, 2}]

Delaunay(points) ==
    IF qhull.diag = 1 THEN << <<1, 2, 4>>, <<1, 3, 4>> >>
                      ELSE << <<1, 2, 3>>, <<2, 3, 4>> >>

\* numerators of the barycentric coordinates of p in triangle (a, b, c), and
\* their sum D (twice the signed area)
Bary(a, b, c, p) ==
    << (b[1]-p[1])*(c[2]-p[2]) - (c[1]-p[1])*(b[2]-p[2]),
       (c[1]-p[1])*(a[2]-p[2]) - (a[1]-p[1])*(c[2]-p[2]),
       (a[1]-p[1])*(b[2]-p[2]) - (b[1]-p[1])*(a[2]-p[2]) >>

Sign(n) == IF n > 0 THEN 1 ELSE IF n < 0 THEN -1 ELSE 0

InSimplex(points, s, p) ==
    LET n == Bary(points[s[1]], points[s[2]], points[s[3]], p)
        d == Sign(n[1] + n[2] + n[3])
    IN  d # 0 /\ \A k \in 1..3 : d * n[k] >= 0

SimplexValue(points, values, s, p) ==
    LET n == Bary(points[s[1]], points[s[2]], points[s[3]], p)
        D == n[1] + n[2] + n[3]
        d == Sign(D)
    IN  IF \E k \in 1..3 : values[s[k]] = NaN THEN NaN
        ELSE (d * (n[1]*values[s[1]] + n[2]*values[s[2]] + n[3]*values[s[3]]))
                 \div (d * D)

\* interp = LinearNDInterpolator(coords, Z, fill_value=9e9); interp(p)
LinearNDInterpolator(points, values, p) ==
    LET tri   == Delaunay(points)
        found == {k \in 1..Len(tri) : InSimplex(points, tri[k], p)}
    IN  IF found = {} THEN FillValue
        ELSE LET k == IF qhull.first \in found THEN qhull.first
                      ELSE CHOOSE j \in found : TRUE
             IN  SimplexValue(points, values, tri[k], p)

\* a faulty variant: the interpolant is built on (y, x) and evaluated at (x, y)
bilinear_interp_swapped(g1x, g1y, g2x, g2y, zz) ==
    LET coords_from == zip(flatten(g1y), flatten(g1x))
        Z == flatten(zz)
    IN  [r \in DOMAIN g2y |-> [c \in DOMAIN g2y[r] |->
            LinearNDInterpolator(coords_from, Z, <<g2x[r][c], g2y[r][c]>>)]]

bilinear_interp(g1x, g1y, g2x, g2y, zz) ==
    LET coords_from == zip(flatten(g1y), flatten(g1x))
        Z == flatten(zz)
    IN  [r \in DOMAIN g2y |-> [c \in DOMAIN g2y[r] |->
            LinearNDInterpolator(coords_from, Z, <<g2y[r][c], g2x[r][c]>>)]]

\* np.meshgrid(x, y): two arrays of shape (len(y), len(x))
meshgrid(x, y) ==
    << [j \in DOMAIN y |-> [i \in DOMAIN x |-> x[i]]],
       [j \in DOMAIN y |-> [i \in DOMAIN x |-> y[j]]] >>

-----------------------------------------------------------------------------
(* The values the variables hold while their function is not the one run *)

IdleInterp ==
    /\ grid1x = <<>> /\ grid1y = <<>> /\ z = <<>>
    /\ grid2x = <<>> /\ grid2y = <<>> /\ interpolated_z = <<>>

IdleEvent == ev = [pc |-> "idle"]

IdleRap == rap = [pc |-> "idle"]

IdlePlot == plt = [pc |-> "idle"]

-----------------------------------------------------------------------------
(* bilinear_interp called on its own *)

\* real field values 0..MaxZ (model 4*v), and NaN
MaxZ == 2

FieldValues == {4 * v : v \in 0..MaxZ} \cup {NaN}

\* spacings of the source lattice along x; the spacing along y is 2 (1.0)
SrcDX == {2, 4}

TargetX == -1..5
TargetY == -1..3

InitInterp ==
    /\ qhull \in QhullChoices
    /\ \E dx \in SrcDX :
          /\ grid1x = << <<0, dx>>, <<0, dx>> >>
          /\ grid1y = << <<0, 0>>, <<2, 2>> >>
    /\ z \in {<< <<a, b>>, <<c, d>> >> : a \in FieldValues, b \in FieldValues,
                                       c \in FieldValues, d \in FieldValues}
    /\ \E tx \in TargetX, ty \in TargetY :
          /\ grid2x = << <<tx, tx + 3>> >>
          /\ grid2y = << <<ty, ty + 3>> >>
    /\ interpolated_z = <<>>
    /\ fs = <<>> /\ calls = <<>>
    /\ IdleEvent /\ IdleRap /\ IdlePlot

CallBilinearInterp ==
    /\ interpolated_z = <<>>
    /\ interpolated_z' = bilinear_interp(grid1x, grid1y, grid2x, grid2y, z)
    /\ UNCHANGED <<qhull, grid1x, grid1y, z, grid2x, grid2y, fs, calls, ev, rap, plt>>

NextInterp == CallBilinearInterp

SpecInterp == InitInterp /\ [][NextInterp]_vars

\* what the call returned at target cell <<r, c>>
Returned(r, c) == interpolated_z[r][c]

\* the source rectangle, read off the corner nodes
SrcX0 == grid1x[1][1]
SrcX1 == grid1x[1][2]
SrcY0 == grid1y[1][1]
SrcY1 == grid1y[2][1]

InHull(x, y) == SrcX0 <= x /\ x <= SrcX1 /\ SrcY0 <= y /\ y <= SrcY1

\* the linear interpolant over the split rectangle, written out per triangle:
\* u, v are the offsets from the (x0, y0) corner, w, h the rectangle's sides
PiecewiseLinear(x, y) ==
    LET u == x - SrcX0      v == y - SrcY0
        w == SrcX1 - SrcX0  h == SrcY1 - SrcY0
        z00 == z[1][1]  z10 == z[1][2]  z01 == z[2][1]  z11 == z[2][2]
    IN  IF qhull.diag = 1
        THEN IF v * w <= u * h
             THEN z00 + (u * h * (z10 - z00) + v * w * (z11 - z10)) \div (w * h)
             ELSE z00 + (v * w * (z01 - z00) + u * h * (z11 - z01)) \div (w * h)
        ELSE IF u * h + v * w <= w * h
             THEN z00 + (u * h * (z10 - z00) + v * w * (z01 - z00)) \div (w * h)
             ELSE z11 + ((w - u) * h * (z01 - z11) + (h - v) * w * (z10 - z11)) \div (w * h)

AllNumeric == \A r \in 1..2, c \in 1..2 : IsNum(z[r][c])

\* the spec's scenario: corners (0,0),(1,0),(0,1),(1,1), values [0,1,1,2]
Scenario ==
    /\ grid1x = << <<0, 2>>, <<0, 2>> >>
    /\ grid1y = << <<0, 0>>, <<2, 2>> >>
    /\ z = << <<0, 4>>, <<4, 8>> >>

\* C7: bilinear_interp returns an array of the target grid's shape; a target
\* point outside the hull of the source points holds the fill value 9e9, a
\* point inside never does and holds the piecewise-linear interpolant of z
\* (same (y, x) order at construction and evaluation); in the scenario the
\* target (0.5, 0.5) gives 1.0 and the target (2, 2) gives 9e9.
C7_Interpolates ==
    interpolated_z # <<>> =>
        /\ DOMAIN interpolated_z = DOMAIN grid2x
        /\ \A r \in DOMAIN grid2x :
              /\ DOMAIN interpolated_z[r] = DOMAIN grid2x[r]
              /\ \A c \in DOMAIN grid2x[r] :
                    LET x == grid2x[r][c]
                        y == grid2y[r][c]
                    IN  /\ ~InHull(x, y) => Returned(r, c) = FillValue
                        /\ InHull(x, y) => Returned(r, c) # FillValue
                        /\ InHull(x, y) /\ AllNumeric =>
                              Returned(r, c) = PiecewiseLinear(x, y)
                        /\ Scenario /\ x = 1 /\ y = 1 => Returned(r, c) = 4
                        /\ Scenario /\ x = 4 /\ y = 4 => Returned(r, c) = FillValue

\* the scenario has been interpolated at (0.5, 0.5) and at (2, 2)
C7_Witness ==
    /\ Scenario
    /\ interpolated_z # <<>>
    /\ grid2x = << <<1, 4>> >> /\ grid2y = << <<1, 4>> >>
    /\ interpolated_z = << <<4, FillValue>> >>

-----------------------------------------------------------------------------
(* netCDF files.  A file with an unlimited Time dimension keeps the length *)
(* of that dimension; a variable along Time reads as its fill value at the *)
(* records that were never written to it.                                  *)

\* a 2-D array of the given shape filled with v
Full(rows, cols, v) == [r \in 1..rows |-> [c \in 1..cols |-> v]]

\* the library's default fill of a variable created without fill_value
\* (reserved code)
NcDefaultFill == 2000000001

\* the record a variable reads at an index never written
Unwritten(f, var) ==
    IF var = "zlev" THEN NcDefaultFill
    ELSE Full(f.south_north, f.west_east,
              IF var = "GridRad_Refl" THEN FillValue ELSE NcDefaultFill)

\* a sequence padded with p up to length n
PadTo(sq, n, p) == [k \in 1..(IF n > Len(sq) THEN n ELSE Len(sq)) |->
                        IF k <= Len(sq) THEN sq[k] ELSE p]

\* nc.variables[var][n] = v, n zero-based: writing at or past the end of the
\* unlimited dimension grows it, for every variable of the file
WriteRecord(f, var, n, v) ==
    LET len == IF n + 1 > f.Time THEN n + 1 ELSE f.Time
        g == [f EXCEPT !.Time = len,
                       !.XLAT = PadTo(@, len, Unwritten(f, "XLAT")),
                       !.XLONG = PadTo(@, len, Unwritten(f, "XLONG")),
                       !.GridRad_Refl = PadTo(@, len, Unwritten(f, "GridRad_Refl")),
                       !.zlev = PadTo(@, len, Unwritten(f, "zlev"))]
    IN  [g EXCEPT ![var][n + 1] = v]

\* nc.variables[var][:] = v with a scalar v: every record of the dimension as
\* it stands, a first record when there is none yet
WriteAll(f, var, v) ==
    LET len == IF f.Time = 0 THEN 1 ELSE f.Time
        g == WriteRecord(f, var, len - 1, v)
    IN  [g EXCEPT ![var] = [k \in 1..len |-> v]]

\* Dataset(out_file, "w") followed by the createDimension and createVariable
\* calls of the create branch: a file with no record
CreateGridRadFile(south_north, west_east) ==
    [exists |-> TRUE, STARTDATE |-> 0, Time |-> 0,
     south_north |-> south_north, west_east |-> west_east,
     XLAT |-> <<>>, XLONG |-> <<>>, GridRad_Refl |-> <<>>, zlev |-> <<>>]

-----------------------------------------------------------------------------
(* horiz_interp_and_store_gridrad *)

\* calls made on the output path in one behaviour
MaxCalls == 2

\* output paths are numbered: Path(1), Path(2), ...
Path(i) == <<"gridrad_interp", i>>

OutPath == Path(1)

\* GridRad source files: two altitudes, a 2x2 lattice whose longitudes are
\* given in degrees east (0..360), reflectivity stored sparse
GridRadSparse ==
    { [index |-> <<0, 1, 2, 3, 4, 5, 6, 7>>, Reflectivity |-> <<0, 4, 4, 8, 8, 8, 4, 0>>],
      [index |-> <<0, 3, 5>>, Reflectivity |-> <<8, 4, 12>>] }

GridRadDateHours == {2020050100, 2020050101}

GridRadFiles ==
    { [Longitude |-> <<720, 722>>, Latitude |-> <<0, 2>>, Altitude |-> <<1, 2>>,
       index |-> sp.index, Reflectivity |-> sp.Reflectivity, datehour |-> d] :
         sp \in GridRadSparse, d \in GridRadDateHours }

\* WRF reference files: XLONG and XLAT of shape (Time, south_north, west_east)
WrfFiles ==
    { [XLONG |-> << << <<1, 4>> >> >>, XLAT |-> << << <<1, 1>> >> >>],
      [XLONG |-> << << <<0, 2>> >> >>, XLAT |-> << << <<2, 1>> >> >>] }

ZLevs == 0..2

\* og_refl_vals[index] = og_refl on an all-NaN vector, at flat position k
Dense(g, k) ==
    LET hits == {m \in DOMAIN g.index : g.index[m] = k}
    IN  IF hits = {} THEN NaN
        ELSE g.Reflectivity[CHOOSE m \in hits : \A n \in hits : n <= m]

\* og_refl_reshape[zlev, :, :]
LevelSlice(g, zlev) ==
    LET nlat == Len(g.Latitude)
        nlon == Len(g.Longitude)
    IN  [j \in 1..nlat |-> [i \in 1..nlon |->
            Dense(g, (zlev * nlat + (j - 1)) * nlon + (i - 1))]]

\* the grid the call interpolates: lines 312-335
InterpRefl(g, w, zlev) ==
    LET lon == [i \in DOMAIN g.Longitude |-> g.Longitude[i] - 720]
        mg  == meshgrid(lon, g.Latitude)
    IN  bilinear_interp(mg[1], mg[2], w.XLONG[1], w.XLAT[1], LevelSlice(g, zlev))

\* a faulty variant: the append branch writes at the last record instead of past it
AppendIndexLast(f) == Len(f.GridRad_Refl) - 1

\* n = len(refl)
AppendIndex(f) == Len(f.GridRad_Refl)

\* a faulty variant: the start time is written by the create branch only
StartDateOnCreate(old, datehour) == IF old.exists THEN old.STARTDATE ELSE datehour

\* nc_out.STARTDATE = og_gridrad.datehour.values, before the branch
StartDateWritten(old, datehour) == datehour

\* the file after lines 342-373
StoredFile(old, datehour, lats, lons, interp_refl, zlev) ==
    IF ~old.exists
    THEN LET f0 == [CreateGridRadFile(Len(lats), Len(lons[1]))
                        EXCEPT !.STARTDATE = StartDateWritten(old, datehour)]
             f1 == WriteRecord(f0, "XLAT", 0, lats)
             f2 == WriteRecord(f1, "XLONG", 0, lons)
             f3 == WriteRecord(f2, "GridRad_Refl", 0, interp_refl)
         IN  WriteAll(f3, "zlev", zlev)
    ELSE LET f0 == [old EXCEPT !.STARTDATE = StartDateWritten(old, datehour)]
             n  == AppendIndex(f0)
             f1 == WriteRecord(f0, "GridRad_Refl", n, interp_refl)
             f2 == WriteRecord(f1, "XLONG", n, lons)
             f3 == WriteRecord(f2, "XLAT", n, lats)
         IN  WriteRecord(f3, "zlev", n, zlev)

InitStore ==
    /\ qhull \in QhullChoices
    /\ IdleInterp
    /\ fs = [p \in {OutPath} |-> NoFile]
    /\ calls = <<>>
    /\ IdleEvent /\ IdleRap /\ IdlePlot

\* a call that returns
HorizInterpAndStoreGridrad(gridrad_file, interpto_file, out_file, zlev) ==
    /\ Len(calls) < MaxCalls
    /\ zlev < Len(gridrad_file.Altitude)
    /\ LET lons == interpto_file.XLONG[1]
           lats == interpto_file.XLAT[1]
           interp_refl == InterpRefl(gridrad_file, interpto_file, zlev)
       IN  /\ fs' = [fs EXCEPT ![out_file] =
                        StoredFile(@, gridrad_file.datehour, lats, lons, interp_refl, zlev)]
           /\ calls' = Append(calls, [out_file |-> out_file, zlev |-> zlev,
                                      datehour |-> gridrad_file.datehour,
                                      lats |-> lats, lons |-> lons,
                                      interp_refl |-> interp_refl, fault |-> FALSE])
    /\ UNCHANGED <<qhull, grid1x, grid1y, z, grid2x, grid2y, interpolated_z, ev, rap, plt>>

\* a call whose level does not exist: og_refl_reshape[zlev,:,:] raises at line
\* 325, before the output path is looked at
HorizInterpLevelFault(gridrad_file, out_file, zlev) ==
    /\ Len(calls) < MaxCalls
    /\ zlev >= Len(gridrad_file.Altitude)
    /\ calls' = Append(calls, [out_file |-> out_file, zlev |-> zlev,
                               datehour |-> gridrad_file.datehour,
                               lats |-> <<>>, lons |-> <<>>,
                               interp_refl |-> <<>>, fault |-> TRUE])
    /\ UNCHANGED <<fs, qhull, grid1x, grid1y, z, grid2x, grid2y, interpolated_z, ev, rap, plt>>

NextStore ==
    \E g \in GridRadFiles, w \in WrfFiles, zl \in ZLevs :
        \/ HorizInterpAndStoreGridrad(g, w, OutPath, zl)
        \/ HorizInterpLevelFault(g, OutPath, zl)

SpecStore == InitStore /\ [][NextStore]_vars

\* the calls on OutPath that returned, in order
RECURSIVE Successful(_)
Successful(cs) ==
    IF cs = <<>> THEN <<>>
    ELSE IF Head(cs).fault THEN Successful(Tail(cs))
         ELSE <<Head(cs)>> \o Successful(Tail(cs))

OutFile == fs[OutPath]

\* C4: from an absent output path, k successful calls leave a Time dimension
\* of length k (the first call creates the file with length 1), and record i
\* holds the grid, the coordinates and the zlev of the (i+1)-th call.
C4_AppendsInOrder ==
    LET ok == Successful(calls)
    IN  /\ (ok = <<>>) = ~OutFile.exists
        /\ ok # <<>> =>
              /\ OutFile.Time = Len(ok)
              /\ Len(OutFile.GridRad_Refl) = Len(ok) /\ Len(OutFile.zlev) = Len(ok)
              /\ Len(OutFile.XLAT) = Len(ok) /\ Len(OutFile.XLONG) = Len(ok)
              /\ \A i \in 1..Len(ok) :
                    /\ OutFile.GridRad_Refl[i] = ok[i].interp_refl
                    /\ OutFile.XLAT[i] = ok[i].lats
                    /\ OutFile.XLONG[i] = ok[i].lons
                    /\ OutFile.zlev[i] = ok[i].zlev

\* two calls returned with different grids and different levels, and both
\* records are in the file
C4_Witness ==
    LET ok == Successful(calls)
    IN  /\ Len(ok) = 2 /\ OutFile.exists /\ OutFile.Time = 2
        /\ ok[1].interp_refl # ok[2].interp_refl
        /\ ok[1].zlev # ok[2].zlev
        /\ ok[1].lons # ok[2].lons

\* C5: after any sequence of successful calls, created or appended, STARTDATE
\* is the datehour of the most recent call's source file, and the file holds
\* one start time however many records it has.
C5_LastStartDate ==
    LET ok == Successful(calls)
    IN  ok # <<>> =>
          /\ OutFile.STARTDATE = ok[Len(ok)].datehour
          /\ DOMAIN OutFile = {"exists", "STARTDATE", "Time", "south_north", "west_east",
                               "XLAT", "XLONG", "GridRad_Refl", "zlev"}
          /\ \A i \in 1..Len(ok) :
                ok[i].datehour # ok[Len(ok)].datehour => OutFile.STARTDATE # ok[i].datehour

\* an append replaced the start time the create call had written
C5_Witness ==
    LET ok == Successful(calls)
    IN  /\ Len(ok) = 2
        /\ ok[1].datehour # ok[2].datehour
        /\ OutFile.STARTDATE = ok[2].datehour

-----------------------------------------------------------------------------
(* datetime and timedelta(hours=...) *)

IsLeap(y) == (y % 4 = 0 /\ y % 100 # 0) \/ y % 400 = 0

DaysInMonth(y, m) ==
    IF m = 2 THEN (IF IsLeap(y) THEN 29 ELSE 28)
    ELSE IF m \in {4, 6, 9, 11} THEN 30 ELSE 31

NextHour(d) ==
    IF d.hour < 23 THEN [d EXCEPT !.hour = @ + 1]
    ELSE IF d.day < DaysInMonth(d.year, d.month) THEN [d EXCEPT !.hour = 0, !.day = @ + 1]
    ELSE IF d.month < 12 THEN [d EXCEPT !.hour = 0, !.day = 1, !.month = @ + 1]
    ELSE [d EXCEPT !.hour = 0, !.day = 1, !.month = 1, !.year = @ + 1]

PrevHour(d) ==
    IF d.hour > 0 THEN [d EXCEPT !.hour = @ - 1]
    ELSE IF d.day > 1 THEN [d EXCEPT !.hour = 23, !.day = @ - 1]
    ELSE IF d.month > 1
         THEN [d EXCEPT !.hour = 23, !.day = DaysInMonth(d.year, d.month - 1), !.month = @ - 1]
    ELSE [d EXCEPT !.hour = 23, !.day = 31, !.month = 12, !.year = @ - 1]

\* d + timedelta(hours=h)
RECURSIVE AddHours(_, _)
AddHours(d, h) ==
    IF h = 0 THEN d
    ELSE IF h > 0 THEN AddHours(NextHour(d), h - 1)
    ELSE AddHours(PrevHour(d), h + 1)

\* str(STARTDATE) sliced [:4], [4:6], [6:8], [8:10] into datetime(...)
ParseStartDate(start) ==
    [year |-> start \div 1000000, month |-> (start \div 10000) % 100,
     day |-> (start \div 100) % 100, hour |-> start % 100, minute |-> 0]

\* [f(i) for i in range(a, b)]
Range(a, b) == [k \in 1..(IF b > a THEN b - a ELSE 0) |-> a + k - 1]

\* rdates, lines 272-276
ResponseDates(runinitdate, sixhr, rtime) ==
    IF sixhr THEN [k \in DOMAIN Range(rtime - 5, rtime) |->
                      AddHours(runinitdate, Range(rtime - 5, rtime)[k])]
    ELSE <<AddHours(runinitdate, rtime)>>

\* start_datetime in rdates
InDates(d, rdates) == \E k \in DOMAIN rdates : rdates[k] = d

-----------------------------------------------------------------------------
(* reflectivity_to_eventgrid *)

\* files in the input list
MaxFiles == 2

\* xr.open_dataset masks GridRad_Refl at its _FillValue: 9e9 reads as NaN
Decode(a) == [r \in DOMAIN a |-> [c \in DOMAIN a[r] |->
                 IF a[r][c] = FillValue THEN NaN ELSE a[r][c]]]

\* np.zeros_like(a, dtype=bool)
zeros_like(a) == [r \in DOMAIN a |-> [c \in DOMAIN a[r] |-> FALSE]]

\* a faulty variant: the comparison is not strict
refl_mask_ge(refl, threshold) ==
    [r \in DOMAIN refl |-> [c \in DOMAIN refl[r] |->
        Greater(refl[r][c], threshold) \/ refl[r][c] = threshold]]

\* refl_mask = (refl > threshold)
refl_mask(refl, threshold) ==
    [r \in DOMAIN refl |-> [c \in DOMAIN refl[r] |-> Greater(refl[r][c], threshold)]]

SameShape(a, b) ==
    /\ DOMAIN a = DOMAIN b
    /\ \A r \in DOMAIN a : DOMAIN a[r] = DOMAIN b[r]

\* a faulty variant: the aggregate is replaced by the file's own mask
AggregateOverwrite(agg, mask) == mask

\* agg_refl_mask[refl_mask | agg_refl_mask] = True
Aggregate(agg, mask) ==
    [r \in DOMAIN agg |-> [c \in DOMAIN agg[r] |->
        IF mask[r][c] \/ agg[r][c] THEN TRUE ELSE agg[r][c]]]

\* a faulty variant: every file is taken to be in the window
FileInWindowAlways(f, rdates) == TRUE

\* lines 280-283
FileInWindow(f, rdates) == InDates(ParseStartDate(f.STARTDATE), rdates)

EvLats == << <<1, 1>> >>
EvLons == << <<1, 4>> >>

\* interpolated grids: numbers at, below and above the thresholds, NaN, and
\* the fill value of a target point outside the source hull
EvGrids == { << <<12, NaN>> >>, << <<4, 8>> >>, << <<FillValue, 0>> >> }

EvDateHours == {2020043023, 2020050105, 2020050106}

\* the files the list is drawn from, each as horiz_interp_and_store_gridrad
\* leaves it: one record; two records (a quiet hour, then a loud one); and a
\* file written on a wider grid
EvFiles ==
    { StoredFile(NoFile, d, EvLats, EvLons, g, 0) : g \in EvGrids, d \in EvDateHours }
    \cup { StoredFile(StoredFile(NoFile, 2020050104, EvLats, EvLons, << <<0, 0>> >>, 0),
                      2020050105, EvLats, EvLons, << <<12, 12>> >>, 0) }
    \cup { StoredFile(NoFile, 2020050105, << <<1, 1, 1>> >>, << <<0, 1, 2>> >>,
                      << <<12, 12, 12>> >>, 0) }

EvInitDates ==
    { [year |-> 2020, month |-> 5, day |-> 1, hour |-> 0, minute |-> 0],
      [year |-> 2020, month |-> 4, day |-> 30, hour |-> 22, minute |-> 0] }

EvRtimes == {1, 6}

\* thresholds 1.0 and 2.0
EvThresholds == {4, 8}

InitEvent ==
    /\ qhull \in {[diag |-> 1, first |-> 1]}
    /\ IdleInterp
    /\ calls = <<>>
    /\ \E k \in 0..MaxFiles :
          /\ fs \in [{Path(i) : i \in 1..k} -> EvFiles]
          /\ \E d \in EvInitDates, six \in BOOLEAN, rt \in EvRtimes, th \in EvThresholds :
                ev = [pc |-> "start",
                      interp_gridradfiles |-> [i \in 1..k |-> Path(i)],
                      runinitdate |-> d, sixhr |-> six, rtime |-> rt, threshold |-> th,
                      i |-> 0, agg_refl_mask |-> <<>>, rdates |-> <<>>, skipped |-> <<>>]
    /\ IdleRap /\ IdlePlot

UnchangedByEvent ==
    UNCHANGED <<qhull, grid1x, grid1y, z, grid2x, grid2y, interpolated_z, fs, calls, rap, plt>>

\* lines 267-276 with an empty list: interp_gridradfiles[0] raises IndexError
EvNoFirstFile ==
    /\ ev.pc = "start"
    /\ ev.interp_gridradfiles = <<>>
    /\ ev' = [ev EXCEPT !.pc = "fault"]
    /\ UnchangedByEvent

\* lines 267-276
EvSetup ==
    /\ ev.pc = "start"
    /\ ev.interp_gridradfiles # <<>>
    /\ LET lons == fs[ev.interp_gridradfiles[1]].XLONG[1]
       IN  ev' = [ev EXCEPT !.pc = "loop", !.i = 0,
                            !.agg_refl_mask = zeros_like(lons),
                            !.rdates = ResponseDates(ev.runinitdate, ev.sixhr, ev.rtime)]
    /\ UnchangedByEvent

\* one pass of the loop, lines 278-287, on a file in the window
EvAggregate ==
    /\ ev.pc = "loop"
    /\ ev.i < Len(ev.interp_gridradfiles)
    /\ LET refl_data == fs[ev.interp_gridradfiles[ev.i + 1]]
       IN  /\ FileInWindow(refl_data, ev.rdates)
           /\ LET refl == Decode(refl_data.GridRad_Refl[1])
                  mask == refl_mask(refl, ev.threshold)
              IN  IF SameShape(mask, ev.agg_refl_mask)
                  THEN ev' = [ev EXCEPT !.i = @ + 1,
                                        !.agg_refl_mask = Aggregate(@, mask)]
                  ELSE ev' = [ev EXCEPT !.pc = "fault"]
    /\ UnchangedByEvent

\* one pass of the loop, lines 278-283 and 288-290, on a file outside it
EvSkip ==
    /\ ev.pc = "loop"
    /\ ev.i < Len(ev.interp_gridradfiles)
    /\ LET refl_data == fs[ev.interp_gridradfiles[ev.i + 1]]
       IN  /\ ~FileInWindow(refl_data, ev.rdates)
           /\ ev' = [ev EXCEPT !.i = @ + 1,
                               !.skipped = Append(@, ParseStartDate(refl_data.STARTDATE))]
    /\ UnchangedByEvent

\* line 291
EvReturn ==
    /\ ev.pc = "loop"
    /\ ev.i = Len(ev.interp_gridradfiles)
    /\ ev' = [ev EXCEPT !.pc = "done"]
    /\ UnchangedByEvent

NextEvent == EvNoFirstFile \/ EvSetup \/ EvAggregate \/ EvSkip \/ EvReturn

SpecEvent == InitEvent /\ [][NextEvent]_vars

EvFile(i) == fs[ev.interp_gridradfiles[i]]

EvWindow == {ev.rdates[k] : k \in DOMAIN ev.rdates}

EvStarts(i) == ParseStartDate(EvFile(i).STARTDATE) \in EvWindow

\* the value the builder reads for a file at a cell: time index 0 of
\* GridRad_Refl, above the threshold as a number (a missing value is not)
EvExceeds(i, r, c) ==
    LET v == EvFile(i).GridRad_Refl[1][r][c]
    IN  v # NaN /\ v # FillValue /\ v > ev.threshold

EvFinished == ev.pc \in {"done", "fault"}

EvAllFalse ==
    \A r \in DOMAIN ev.agg_refl_mask : \A c \in DOMAIN ev.agg_refl_mask[r] :
        ev.agg_refl_mask[r][c] = FALSE

\* C1: the returned grid is true at a cell exactly when some file of the list
\* whose start time is in the window has a reflectivity value above the
\* threshold there; a file outside the window contributes nothing and raises
\* nothing (the call faults only on an empty list or on an in-window file of
\* another shape).
C1_EventGrid ==
    /\ ev.pc = "done" =>
          \A r \in DOMAIN ev.agg_refl_mask : \A c \in DOMAIN ev.agg_refl_mask[r] :
              ev.agg_refl_mask[r][c] =
                  (\E i \in DOMAIN ev.interp_gridradfiles : EvStarts(i) /\ EvExceeds(i, r, c))
    /\ ev.pc = "fault" =>
          \/ ev.interp_gridradfiles = <<>>
          \/ \E i \in DOMAIN ev.interp_gridradfiles :
                EvStarts(i) /\ ~SameShape(EvFile(i).GridRad_Refl[1], ev.agg_refl_mask)

\* a returned grid with a cell marked by an in-window file and a cell left
\* false although a file outside the window exceeds the threshold there
C1_Witness ==
    /\ ev.pc = "done"
    /\ \E i \in DOMAIN ev.interp_gridradfiles : \E r \in {1}, c \in {1, 2} :
          EvStarts(i) /\ EvExceeds(i, r, c) /\ ev.agg_refl_mask[r][c]
    /\ \E i \in DOMAIN ev.interp_gridradfiles : \E r \in {1}, c \in {1, 2} :
          ~EvStarts(i) /\ EvExceeds(i, r, c) /\ ~ev.agg_refl_mask[r][c]

\* C2 as claimed: in 6-hour mode the window is the 5 hourly instants
\* init+(rtime-4)h .. init+rtime h.
C2_WindowEndsAtRtime ==
    (ev.pc \in {"loop", "done"} /\ ev.sixhr) =>
        EvWindow = {AddHours(ev.runinitdate, h) : h \in (ev.rtime - 4)..ev.rtime}

\* C3 as claimed: with zero files, or with no file in the window, the call
\* returns an all-false grid and does not end in an error.
C3_NoMatchAllFalse ==
    (EvFinished /\ \A i \in DOMAIN ev.interp_gridradfiles :
                      ~FileInWindow(EvFile(i), ResponseDates(ev.runinitdate, ev.sixhr, ev.rtime)))
        => (ev.pc = "done" /\ EvAllFalse)

\* C3 amended: with a non-empty list none of whose files is in the window the
\* call returns an all-false grid shaped like the first file's XLONG[0]; with
\* an empty list it ends in an error at the first open.
C3_NonEmptyNoMatchAllFalse ==
    /\ (EvFinished /\ ev.interp_gridradfiles # <<>>
          /\ \A i \in DOMAIN ev.interp_gridradfiles : ~EvStarts(i))
         => /\ ev.pc = "done"
            /\ EvAllFalse
            /\ SameShape(ev.agg_refl_mask, EvFile(1).XLONG[1])
    /\ (EvFinished /\ ev.interp_gridradfiles = <<>>) => ev.pc = "fault"

\* a call returned on two files, neither in the window, one of them above
\* the threshold
C3_Witness ==
    /\ ev.pc = "done"
    /\ Len(ev.interp_gridradfiles) = 2
    /\ \A i \in DOMAIN ev.interp_gridradfiles : ~EvStarts(i)
    /\ \E i \in DOMAIN ev.interp_gridradfiles : EvExceeds(i, 1, 1)
    /\ EvAllFalse

\* C8: while the files are processed in order, a cell of the aggregate that
\* is true stays true through every later file, in the window or not, up to
\* the returned grid.
C8_Monotonic ==
    [][(ev.pc = "loop" /\ ev'.pc \in {"loop", "done"}) =>
          /\ SameShape(ev.agg_refl_mask, ev'.agg_refl_mask)
          /\ \A r \in DOMAIN ev.agg_refl_mask : \A c \in DOMAIN ev.agg_refl_mask[r] :
                ev.agg_refl_mask[r][c] => ev'.agg_refl_mask[r][c]]_vars

\* a cell marked by the first file is still marked after an in-window second
\* file that does not exceed the threshold there
C8_Witness ==
    /\ ev.pc = "done"
    /\ Len(ev.interp_gridradfiles) = 2
    /\ EvStarts(1) /\ EvStarts(2)
    /\ \E c \in {1, 2} : EvExceeds(1, 1, c) /\ ~EvExceeds(2, 1, c) /\ ev.agg_refl_mask[1][c]

-----------------------------------------------------------------------------
(* interpRAPtoWRF *)

\* calls made in one behaviour (every call names the same date, so the same
\* output path)
MaxRapCalls == 2

RapPath == <<"RAP_interp_to_WRF", 1>>

\* the level coordinates a remote dataset may carry: the five levels in
\* either order, with further levels around them, with a repeated level,
\* without 925 hPa, and in hPa instead of Pa
IsobaricChoices ==
    { <<30000, 50000, 70000, 85000, 92500>>,
      <<100000, 92500, 85000, 70000, 50000, 30000, 20000>>,
      <<92500, 85000, 92500, 70000, 50000, 30000>>,
      <<30000, 50000, 70000, 85000, 100000>>,
      <<300, 500, 700, 850, 925>> }

\* the two height coordinates: as needed, with further levels before the
\* needed one, without 2 m, and without 10 m
HeightChoices ==
    { [hgt_above_gnd |-> <<2>>, hgt_above_gnd4 |-> <<10>>],
      [hgt_above_gnd |-> <<10, 2>>, hgt_above_gnd4 |-> <<80, 10>>],
      [hgt_above_gnd |-> <<10>>, hgt_above_gnd4 |-> <<10>>],
      [hgt_above_gnd |-> <<2>>, hgt_above_gnd4 |-> <<80>>] }

RapSeeds == {0, 1}

RapVariables ==
    << "Geopotential_height_isobaric", "Temperature_isobaric",
       "u-component_of_wind_isobaric", "v-component_of_wind_isobaric",
       "Temperature_height_above_ground", "Dewpoint_temperature_height_above_ground",
       "Specific_humidity_height_above_ground", "MSLP_MAPS_System_Reduction_msl",
       "u-component_of_wind_height_above_ground",
       "v-component_of_wind_height_above_ground" >>

VarNo(var) == CHOOSE n \in DOMAIN RapVariables : RapVariables[n] = var

\* rap_anl.variables[var][0, k, :, :] of the dataset drawn with the seed: a
\* 2x2 field, different for every variable and every level index
SourceField(seed, var, k) ==
    LET b == 4 * (seed + 10 * VarNo(var) + k)
    IN  << <<b, b + 4>>, <<b + 4, b + 12>> >>

\* rap_anl.variables['lon'], ['lat']
RapLons == << <<0, 1>>, <<0, 1>> >>
RapLats == << <<0, 0>>, <<1, 1>> >>

\* geo.toECEF(lons, lats, alt): a planar stand-in that keeps the two grids in
\* one frame (the real conversion is trigonometric)
toECEF(lons, lats, alt) ==
    << [r \in DOMAIN lons |-> [c \in DOMAIN lons[r] |-> 2 * lons[r][c]]],
       [r \in DOMAIN lats |-> [c \in DOMAIN lats[r] |-> 2 * lats[r][c]]],
       alt >>

\* the WRF reference grids the RAP is interpolated to, in the units of
\* RapLons (one point inside the RAP grid, one outside)
RapWrfFiles ==
    { [XLONG |-> << << <<1, 2>> >> >>, XLAT |-> << << <<0, 1>> >> >>],
      [XLONG |-> << << <<0, 1>> >> >>, XLAT |-> << << <<1, 0>> >> >>] }

\* a faulty variant: the nearest level is taken when none is equal
LevelLookupNearest(coord, value) ==
    LET dist(k) == IF coord[k] > value THEN coord[k] - value ELSE value - coord[k]
    IN  (CHOOSE k \in DOMAIN coord :
            \A j \in DOMAIN coord : dist(k) < dist(j) \/ (dist(k) = dist(j) /\ k <= j)) - 1

\* np.where(coord[:] == value)[0][0]: the first equal position (zero-based);
\* -1 stands for the IndexError raised when there is none
LevelLookup(coord, value) ==
    LET hits == {k \in DOMAIN coord : coord[k] = value}
    IN  IF hits = {} THEN -1
        ELSE (CHOOSE k \in hits : \A j \in hits : k <= j) - 1

\* lines 113-119
Levels(ds) ==
    [lev925 |-> LevelLookup(ds.isobaric, 92500),
     lev850 |-> LevelLookup(ds.isobaric, 85000),
     lev700 |-> LevelLookup(ds.isobaric, 70000),
     lev500 |-> LevelLookup(ds.isobaric, 50000),
     lev300 |-> LevelLookup(ds.isobaric, 30000),
     lev2m  |-> LevelLookup(ds.hgt_above_gnd, 2),
     lev10m |-> LevelLookup(ds.hgt_above_gnd4, 10)]

\* lines 122-149: each entry names the variable and the level it is sliced at
sensvarlist ==
    << [var |-> "Geopotential_height_isobaric", lev |-> "lev300"],
       [var |-> "Geopotential_height_isobaric", lev |-> "lev500"],
       [var |-> "Geopotential_height_isobaric", lev |-> "lev700"],
       [var |-> "Geopotential_height_isobaric", lev |-> "lev850"],
       [var |-> "Temperature_isobaric", lev |-> "lev300"],
       [var |-> "Temperature_isobaric", lev |-> "lev500"],
       [var |-> "Temperature_isobaric", lev |-> "lev700"],
       [var |-> "Temperature_isobaric", lev |-> "lev850"],
       [var |-> "Temperature_isobaric", lev |-> "lev925"],
       [var |-> "u-component_of_wind_isobaric", lev |-> "lev300"],
       [var |-> "u-component_of_wind_isobaric", lev |-> "lev500"],
       [var |-> "u-component_of_wind_isobaric", lev |-> "lev700"],
       [var |-> "u-component_of_wind_isobaric", lev |-> "lev850"],
       [var |-> "u-component_of_wind_isobaric", lev |-> "lev925"],
       [var |-> "v-component_of_wind_isobaric", lev |-> "lev300"],
       [var |-> "v-component_of_wind_isobaric", lev |-> "lev500"],
       [var |-> "v-component_of_wind_isobaric", lev |-> "lev700"],
       [var |-> "v-component_of_wind_isobaric", lev |-> "lev850"],
       [var |-> "v-component_of_wind_isobaric", lev |-> "lev925"],
       [var |-> "MSLP_MAPS_System_Reduction_msl", lev |-> "none"],
       [var |-> "Temperature_height_above_ground", lev |-> "lev2m"],
       [var |-> "Specific_humidity_height_above_ground", lev |-> "lev2m"],
       [var |-> "Dewpoint_temperature_height_above_ground", lev |-> "lev2m"],
       [var |-> "u-component_of_wind_height_above_ground", lev |-> "lev10m"],
       [var |-> "v-component_of_wind_height_above_ground", lev |-> "lev10m"] >>

sensstringslist_swapped ==
    << <<"3","0","0"," ","h","P","a"," ","G","P","H">>,
       <<"5","0","0"," ","h","P","a"," ","G","P","H">>,
       <<"7","0","0"," ","h","P","a"," ","G","P","H">>,
       <<"8","5","0"," ","h","P","a"," ","G","P","H">>,
       <<"3","0","0"," ","h","P","a"," ","T">>,
       <<"5","0","0"," ","h","P","a"," ","T">>,
       <<"7","0","0"," ","h","P","a"," ","T">>,
       <<"8","5","0"," ","h","P","a"," ","T">>,
       <<"9","2","5"," ","h","P","a"," ","T">>,
       <<"3","0","0"," ","h","P","a"," ","U","-","W","i","n","d">>,
       <<"5","0","0"," ","h","P","a"," ","U","-","W","i","n","d">>,
       <<"7","0","0"," ","h","P","a"," ","U","-","W","i","n","d">>,
       <<"8","5","0"," ","h","P","a"," ","U","-","W","i","n","d">>,
       <<"9","2","5"," ","h","P","a"," ","U","-","W","i","n","d">>,
       <<"3","0","0"," ","h","P","a"," ","V","-","W","i","n","d">>,
       <<"5","0","0"," ","h","P","a"," ","V","-","W","i","n","d">>,
       <<"7","0","0"," ","h","P","a"," ","V","-","W","i","n","d">>,
       <<"8","5","0"," ","h","P","a"," ","V","-","W","i","n","d">>,
       <<"9","2","5"," ","h","P","a"," ","V","-","W","i","n","d">>,
       <<"S","L","P">>,
       <<"2","m"," ","T","e","m","p">>,
       <<"2","m"," ","D","e","w","p","t">>,
       <<"2","m"," ","Q">>,
       <<"1","0","m"," ","U","-","W","i","n","d">>,
       <<"1","0","m"," ","V","-","W","i","n","d">> >>

\* lines 152-156, as sequences of characters
sensstringslist ==
    << <<"3","0","0"," ","h","P","a"," ","G","P","H">>,
       <<"5","0","0"," ","h","P","a"," ","G","P","H">>,
       <<"7","0","0"," ","h","P","a"," ","G","P","H">>,
       <<"8","5","0"," ","h","P","a"," ","G","P","H">>,
       <<"3","0","0"," ","h","P","a"," ","T">>,
       <<"5","0","0"," ","h","P","a"," ","T">>,
       <<"7","0","0"," ","h","P","a"," ","T">>,
       <<"8","5","0"," ","h","P","a"," ","T">>,
       <<"9","2","5"," ","h","P","a"," ","T">>,
       <<"3","0","0"," ","h","P","a"," ","U","-","W","i","n","d">>,
       <<"5","0","0"," ","h","P","a"," ","U","-","W","i","n","d">>,
       <<"7","0","0"," ","h","P","a"," ","U","-","W","i","n","d">>,
       <<"8","5","0"," ","h","P","a"," ","U","-","W","i","n","d">>,
       <<"9","2","5"," ","h","P","a"," ","U","-","W","i","n","d">>,
       <<"3","0","0"," ","h","P","a"," ","V","-","W","i","n","d">>,
       <<"5","0","0"," ","h","P","a"," ","V","-","W","i","n","d">>,
       <<"7","0","0"," ","h","P","a"," ","V","-","W","i","n","d">>,
       <<"8","5","0"," ","h","P","a"," ","V","-","W","i","n","d">>,
       <<"9","2","5"," ","h","P","a"," ","V","-","W","i","n","d">>,
       <<"S","L","P">>,
       <<"2","m"," ","T","e","m","p">>,
       <<"2","m"," ","Q">>,
       <<"2","m"," ","D","e","w","p","t">>,
       <<"1","0","m"," ","U","-","W","i","n","d">>,
       <<"1","0","m"," ","V","-","W","i","n","d">> >>

\* str.replace(" ", "_")
replace_space(label) == [k \in DOMAIN label |-> IF label[k] = " " THEN "_" ELSE label[k]]

XLAT_name == <<"X", "L", "A", "T">>
XLONG_name == <<"X", "L", "O", "N", "G">>

\* sensvarlist[i] (one-based here), sliced from the dataset
SensVar(ds, lev, i) ==
    LET e == sensvarlist[i]
    IN  SourceField(ds.seed, e.var, IF e.lev = "none" THEN 0 ELSE lev[e.lev])

\* bilinear_interp(recefx, recefy, wecefx, wecefy, field), lines 163-169, 185
RapInterp(wrf, field) ==
    LET lons == wrf.XLONG[1]
        lats == wrf.XLAT[1]
        wecef == toECEF(lons, lats, lats)
        recef == toECEF(RapLons, RapLats, RapLats)
    IN  bilinear_interp(recef[1], recef[2], wecef[1], wecef[2], field)

InitRap ==
    /\ qhull \in {q \in QhullChoices : q.first = 1}
    /\ IdleInterp
    /\ fs = [p \in {RapPath} |-> NoFile]
    /\ calls = <<>>
    /\ IdleEvent /\ IdlePlot
    /\ rap = [pc |-> "idle", ncalls |-> 0]

UnchangedByRap ==
    UNCHANGED <<qhull, grid1x, grid1y, z, grid2x, grid2y, interpolated_z, calls, ev, plt>>

\* lines 85-110: the dataset is fetched
RapFetch ==
    /\ rap.pc \in {"idle", "done", "fault"}
    /\ rap.ncalls < MaxRapCalls
    /\ \E iso \in IsobaricChoices, h \in HeightChoices, sd \in RapSeeds, w \in RapWrfFiles :
          rap' = [pc |-> "fetched", ncalls |-> rap.ncalls + 1,
                  ds |-> [isobaric |-> iso, hgt_above_gnd |-> h.hgt_above_gnd,
                          hgt_above_gnd4 |-> h.hgt_above_gnd4, seed |-> sd],
                  wrfref |-> w, lev |-> <<>>, i |-> 0]
    /\ fs' = fs
    /\ UnchangedByRap

\* lines 113-119: the seven lookups
RapLevels ==
    /\ rap.pc = "fetched"
    /\ LET lev == Levels(rap.ds)
       IN  IF \E n \in DOMAIN lev : lev[n] < 0
           THEN rap' = [rap EXCEPT !.pc = "fault"]
           ELSE rap' = [rap EXCEPT !.pc = "levels", !.lev = lev]
    /\ fs' = fs
    /\ UnchangedByRap

\* lines 121-180: the output file is opened "w" and gets XLAT and XLONG
RapOpen ==
    /\ rap.pc = "levels"
    /\ LET lons == rap.wrfref.XLONG[1]
           lats == rap.wrfref.XLAT[1]
       IN  fs' = [fs EXCEPT ![RapPath] =
                     [exists |-> TRUE, lat |-> Len(lats), lon |-> Len(lons[1]),
                      vars |-> [n \in {XLAT_name, XLONG_name} |->
                                   IF n = XLAT_name THEN lats ELSE lons]]]
    /\ rap' = [rap EXCEPT !.pc = "writing", !.i = 0]
    /\ UnchangedByRap

\* one pass of the loop, lines 184-188
RapWriteVar ==
    /\ rap.pc = "writing"
    /\ rap.i < Len(sensvarlist)
    /\ LET name == replace_space(sensstringslist[rap.i + 1])
           val  == RapInterp(rap.wrfref, SensVar(rap.ds, rap.lev, rap.i + 1))
           f    == fs[RapPath]
       IN  IF name \in DOMAIN f.vars
           THEN rap' = [rap EXCEPT !.pc = "fault"] /\ fs' = fs
           ELSE /\ fs' = [fs EXCEPT ![RapPath].vars =
                             [n \in DOMAIN f.vars \cup {name} |->
                                 IF n = name THEN val ELSE f.vars[n]]]
                /\ rap' = [rap EXCEPT !.i = @ + 1]
    /\ UnchangedByRap

\* lines 189-190
RapClose ==
    /\ rap.pc = "writing"
    /\ rap.i = Len(sensvarlist)
    /\ rap' = [rap EXCEPT !.pc = "done"]
    /\ fs' = fs
    /\ UnchangedByRap

NextRap == RapFetch \/ RapLevels \/ RapOpen \/ RapWriteVar \/ RapClose

SpecRap == InitRap /\ [][NextRap]_vars

\* what the output file is to hold, written down from the contract: the name
\* of each variable, the source variable it comes from, and the level (Pa on
\* the isobaric coordinate, metres on the two height coordinates)
C6_Expected ==
    << [name |-> <<"3","0","0","_","h","P","a","_","G","P","H">>,
        var |-> "Geopotential_height_isobaric", coord |-> "isobaric", level |-> 30000],
       [name |-> <<"5","0","0","_","h","P","a","_","G","P","H">>,
        var |-> "Geopotential_height_isobaric", coord |-> "isobaric", level |-> 50000],
       [name |-> <<"7","0","0","_","h","P","a","_","G","P","H">>,
        var |-> "Geopotential_height_isobaric", coord |-> "isobaric", level |-> 70000],
       [name |-> <<"8","5","0","_","h","P","a","_","G","P","H">>,
        var |-> "Geopotential_height_isobaric", coord |-> "isobaric", level |-> 85000],
       [name |-> <<"3","0","0","_","h","P","a","_","T">>,
        var |-> "Temperature_isobaric", coord |-> "isobaric", level |-> 30000],
       [name |-> <<"5","0","0","_","h","P","a","_","T">>,
        var |-> "Temperature_isobaric", coord |-> "isobaric", level |-> 50000],
       [name |-> <<"7","0","0","_","h","P","a","_","T">>,
        var |-> "Temperature_isobaric", coord |-> "isobaric", level |-> 70000],
       [name |-> <<"8","5","0","_","h","P","a","_","T">>,
        var |-> "Temperature_isobaric", coord |-> "isobaric", level |-> 85000],
       [name |-> <<"9","2","5","_","h","P","a","_","T">>,
        var |-> "Temperature_isobaric", coord |-> "isobaric", level |-> 92500],
       [name |-> <<"3","0","0","_","h","P","a","_","U","-","W","i","n","d">>,
        var |-> "u-component_of_wind_isobaric", coord |-> "isobaric", level |-> 30000],
       [name |-> <<"5","0","0","_","h","P","a","_","U","-","W","i","n","d">>,
        var |-> "u-component_of_wind_isobaric", coord |-> "isobaric", level |-> 50000],
       [name |-> <<"7","0","0","_","h","P","a","_","U","-","W","i","n","d">>,
        var |-> "u-component_of_wind_isobaric", coord |-> "isobaric", level |-> 70000],
       [name |-> <<"8","5","0","_","h","P","a","_","U","-","W","i","n","d">>,
        var |-> "u-component_of_wind_isobaric", coord |-> "isobaric", level |-> 85000],
       [name |-> <<"9","2","5","_","h","P","a","_","U","-","W","i","n","d">>,
        var |-> "u-component_of_wind_isobaric", coord |-> "isobaric", level |-> 92500],
       [name |-> <<"3","0","0","_","h","P","a","_","V","-","W","i","n","d">>,
        var |-> "v-component_of_wind_isobaric", coord |-> "isobaric", level |-> 30000],
       [name |-> <<"5","0","0","_","h","P","a","_","V","-","W","i","n","d">>,
        var |-> "v-component_of_wind_isobaric", coord |-> "isobaric", level |-> 50000],
       [name |-> <<"7","0","0","_","h","P","a","_","V","-","W","i","n","d">>,
        var |-> "v-component_of_wind_isobaric", coord |-> "isobaric", level |-> 70000],
       [name |-> <<"8","5","0","_","h","P","a","_","V","-","W","i","n","d">>,
        var |-> "v-component_of_wind_isobaric", coord |-> "isobaric", level |-> 85000],
       [name |-> <<"9","2","5","_","h","P","a","_","V","-","W","i","n","d">>,
        var |-> "v-component_of_wind_isobaric", coord |-> "isobaric", level |-> 92500],
       [name |-> <<"S","L","P">>,
        var |-> "MSLP_MAPS_System_Reduction_msl", coord |-> "none", level |-> 0],
       [name |-> <<"2","m","_","T","e","m","p">>,
        var |-> "Temperature_height_above_ground", coord |-> "height_above_ground", level |-> 2],
       [name |-> <<"2","m","_","Q">>,
        var |-> "Specific_humidity_height_above_ground", coord |-> "height_above_ground", level |-> 2],
       [name |-> <<"2","m","_","D","e","w","p","t">>,
        var |-> "Dewpoint_temperature_height_above_ground", coord |-> "height_above_ground", level |-> 2],
       [name |-> <<"1","0","m","_","U","-","W","i","n","d">>,
        var |-> "u-component_of_wind_height_above_ground", coord |-> "height_above_ground4", level |-> 10],
       [name |-> <<"1","0","m","_","V","-","W","i","n","d">>,
        var |-> "v-component_of_wind_height_above_ground", coord |-> "height_above_ground4", level |-> 10] >>

RapCoord(ds, coord) ==
    IF coord = "isobaric" THEN ds.isobaric
    ELSE IF coord = "height_above_ground" THEN ds.hgt_above_gnd
    ELSE ds.hgt_above_gnd4

\* the first position of the coordinate that equals the level (zero-based)
FirstAt(coord, level) ==
    (CHOOSE k \in DOMAIN coord :
        coord[k] = level /\ \A j \in 1..(k - 1) : coord[j] # level) - 1

C6_ExpectedField(ds, e) ==
    SourceField(ds.seed, e.var,
                IF e.coord = "none" THEN 0 ELSE FirstAt(RapCoord(ds, e.coord), e.level))

\* C6: a call that returns leaves one file with XLAT, XLONG and exactly 25
\* further variables, each named by its label with underscores for spaces and
\* holding the interpolation of the source field at the level the label names.
C6_TwentyFiveVariables ==
    rap.pc = "done" =>
        LET f == fs[RapPath]
            names == {C6_Expected[i].name : i \in DOMAIN C6_Expected}
        IN  /\ f.exists
            /\ Len(sensvarlist) = 25 /\ Len(sensstringslist) = 25
            /\ Cardinality(names) = 25
            /\ DOMAIN f.vars = names \cup {XLAT_name, XLONG_name}
            /\ Cardinality(DOMAIN f.vars) = 27
            /\ f.vars[XLAT_name] = rap.wrfref.XLAT[1]
            /\ f.vars[XLONG_name] = rap.wrfref.XLONG[1]
            /\ \A i \in DOMAIN C6_Expected :
                  f.vars[C6_Expected[i].name] =
                      RapInterp(rap.wrfref, C6_ExpectedField(rap.ds, C6_Expected[i]))

\* a call returned on a dataset whose levels are not in the order of the
\* labels and whose 925 hPa level is repeated
C6_Witness ==
    /\ rap.pc = "done"
    /\ rap.ds.isobaric = <<92500, 85000, 92500, 70000, 50000, 30000>>
    /\ rap.ds.hgt_above_gnd = <<10, 2>>
    /\ Cardinality(DOMAIN fs[RapPath].vars) = 27

RequiredLevels ==
    { <<"isobaric", 92500>>, <<"isobaric", 85000>>, <<"isobaric", 70000>>,
      <<"isobaric", 50000>>, <<"isobaric", 30000>>,
      <<"height_above_ground", 2>>, <<"height_above_ground4", 10>> }

LevelMissing(ds) ==
    \E q \in RequiredLevels :
        \A k \in DOMAIN RapCoord(ds, q[1]) : RapCoord(ds, q[1])[k] # q[2]

\* C9: when one of the seven required levels has no equal value in its
\* coordinate, the call faults at the lookup, and the output file is neither
\* created nor truncated: it is as it was when the call began, because the
\* file is opened only after every lookup.
C9_LevelFaultLeavesFile ==
    [][/\ (rap.pc = "fetched" /\ LevelMissing(rap.ds)) => (rap'.pc = "fault" /\ fs' = fs)
       /\ (rap.pc = "fetched" /\ ~LevelMissing(rap.ds)) => rap'.pc = "levels"
       /\ fs' # fs => (rap.pc \in {"levels", "writing"} /\ ~LevelMissing(rap.ds))]_vars

\* a call faulted at the lookup while the file of an earlier call was there
C9_Witness ==
    /\ rap.pc = "fault"
    /\ LevelMissing(rap.ds)
    /\ fs[RapPath].exists
    /\ Cardinality(DOMAIN fs[RapPath].vars) = 27

-----------------------------------------------------------------------------
(* plot_interp_refl_rbox *)

\* time entries of the plotted file
MaxFrames == 3

PlotGrids == { << <<12, FillValue>> >>, << <<NaN, NaN>> >> }

PlotAnalysisTimes == {2020050100, 2020043022}

\* the file horiz_interp_and_store_gridrad leaves after one call per grid
RECURSIVE StoredSeries(_, _)
StoredSeries(grids, datehour) ==
    IF grids = <<>> THEN NoFile
    ELSE StoredFile(StoredSeries(SubSeq(grids, 1, Len(grids) - 1), datehour - 1),
                    datehour, EvLats, EvLons, grids[Len(grids)], 0)

\* datetime.strptime(str(analysistime), "%Y%m%d%H")
strptime(analysistime) ==
    [year |-> analysistime \div 1000000, month |-> (analysistime \div 10000) % 100,
     day |-> (analysistime \div 100) % 100, hour |-> analysistime % 100, minute |-> 0]

InitPlot ==
    /\ qhull \in {[diag |-> 1, first |-> 1]}
    /\ IdleInterp
    /\ calls = <<>>
    /\ IdleEvent /\ IdleRap
    /\ \E n \in 1..MaxFrames :
          /\ \E grids \in [1..n -> PlotGrids] :
                fs = [p \in {OutPath} |-> StoredSeries(grids, 2020050112)]
          /\ \E t \in PlotAnalysisTimes, bad \in SUBSET (0..(n - 1)) :
                plt = [pc |-> "start", gridrad_interpfile |-> OutPath, analysistime |-> t,
                       fails |-> bad, i |-> 0, n |-> 0, zlev |-> 0,
                       saved |-> <<>>, warned |-> <<>>]

UnchangedByPlot ==
    UNCHANGED <<qhull, grid1x, grid1y, z, grid2x, grid2y, interpolated_z, fs, calls, ev, rap>>

\* lines 396-411
PlotSetup ==
    /\ plt.pc = "start"
    /\ LET dat == fs[plt.gridrad_interpfile]
       IN  plt' = [plt EXCEPT !.pc = "loop", !.i = 0,
                              !.n = Len(dat.GridRad_Refl), !.zlev = dat.zlev[1]]
    /\ UnchangedByPlot

\* plt.savefig(...), lines 443-444, and the next pass
SaveFrame(p) ==
    [p EXCEPT !.saved = Append(@, [i |-> p.i, zlev |-> p.zlev + 1,
                                   time |-> AddHours(strptime(p.analysistime), p.i)]),
              !.i = @ + 1]

\* a faulty variant: the contouring error leaves the function
ContourErrorPropagates(p) == [p EXCEPT !.pc = "fault"]

\* except: print("No values to contour..."), lines 441-442, then on to savefig
ContourErrorCaught(p) == SaveFrame([p EXCEPT !.warned = Append(@, p.i)])

\* one pass of the loop, lines 413-444, contourf returning
PlotFrame ==
    /\ plt.pc = "loop"
    /\ plt.i < plt.n
    /\ plt.i \notin plt.fails
    /\ plt' = SaveFrame(plt)
    /\ UnchangedByPlot

\* one pass of the loop, lines 413-444, contourf raising
PlotFrameNoContour ==
    /\ plt.pc = "loop"
    /\ plt.i < plt.n
    /\ plt.i \in plt.fails
    /\ plt' = ContourErrorCaught(plt)
    /\ UnchangedByPlot

\* range(len(refl)) is exhausted
PlotReturn ==
    /\ plt.pc = "loop"
    /\ plt.i = plt.n
    /\ plt' = [plt EXCEPT !.pc = "done"]
    /\ UnchangedByPlot

NextPlot == PlotSetup \/ PlotFrame \/ PlotFrameNoContour \/ PlotReturn

SpecPlot == InitPlot /\ [][NextPlot]_vars

\* C10: the entries are visited in index order; an entry that fails to
\* contour is logged and no more, every entry after it is still processed,
\* and the loop ends only after one pass per stored entry, whatever subset
\* of entries fails.
C10_EveryEntryVisited ==
    /\ plt.pc # "fault"
    /\ plt.pc \in {"loop", "done"} =>
          /\ plt.n = fs[plt.gridrad_interpfile].Time
          /\ plt.i <= plt.n
          /\ Len(plt.saved) = plt.i
          /\ \A k \in 1..plt.i : plt.saved[k].i = k - 1
          /\ {plt.warned[k] : k \in DOMAIN plt.warned} = {j \in plt.fails : j < plt.i}
          /\ Len(plt.warned) = Cardinality({j \in plt.fails : j < plt.i})
    /\ plt.pc = "done" => plt.i = fs[plt.gridrad_interpfile].Time

\* the loop ended on a file of three entries whose first entry failed
C10_Witness ==
    /\ plt.pc = "done"
    /\ plt.n = 3
    /\ 0 \in plt.fails /\ 2 \notin plt.fails
    /\ Len(plt.saved) = 3

-----------------------------------------------------------------------------
(* horiz_interp_and_store_gridrad followed by reflectivity_to_eventgrid on  *)
(* the file it wrote: the calls are made one after the other, the builder   *)
(* after the last store.                                                    *)

InitPipeline ==
    /\ qhull \in QhullChoices
    /\ IdleInterp
    /\ fs = [p \in {OutPath} |-> NoFile]
    /\ calls = <<>>
    /\ IdleEvent /\ IdleRap /\ IdlePlot

\* a store call, made before the builder is called
PipeStore ==
    /\ ev.pc = "idle"
    /\ \E g \in GridRadFiles, w \in WrfFiles, zl \in ZLevs :
          HorizInterpAndStoreGridrad(g, w, OutPath, zl)

\* reflectivity_to_eventgrid is called on the stored file, lines 240-241
PipeCallEvent ==
    /\ ev.pc = "idle"
    /\ fs[OutPath].exists
    /\ \E d \in EvInitDates, six \in BOOLEAN, rt \in EvRtimes, th \in EvThresholds :
          ev' = [pc |-> "start", interp_gridradfiles |-> <<OutPath>>,
                 runinitdate |-> d, sixhr |-> six, rtime |-> rt, threshold |-> th,
                 i |-> 0, agg_refl_mask |-> <<>>, rdates |-> <<>>, skipped |-> <<>>]
    /\ UnchangedByEvent

NextPipeline == PipeStore \/ PipeCallEvent \/ EvSetup \/ EvAggregate \/ EvSkip \/ EvReturn

SpecPipeline == InitPipeline /\ [][NextPipeline]_vars

\* the calls that wrote the records of the stored file, record k by call k
PipeWriters == Successful(calls)

\* C11 as claimed: for a file written by any sequence of store calls, the
\* record the builder thresholds (time index 0) comes from the source whose
\* datehour is the file's STARTDATE, so a marked cell was observed above the
\* threshold at an instant of the window.
C11_IndexZeroIsStartDate ==
    ev.pc \in {"loop", "done"} =>
        /\ PipeWriters[1].datehour = EvFile(1).STARTDATE
        /\ \A r \in DOMAIN ev.agg_refl_mask : \A c \in DOMAIN ev.agg_refl_mask[r] :
              ev.agg_refl_mask[r][c] =>
                  \E k \in DOMAIN PipeWriters :
                      /\ ParseStartDate(PipeWriters[k].datehour) \in EvWindow
                      /\ SameShape(PipeWriters[k].interp_refl, ev.agg_refl_mask)
                      /\ Greater(Decode(PipeWriters[k].interp_refl)[r][c], ev.threshold)

====
